---- MODULE Spec2Model ----
(***************************************************************************)
(* The stock exchange web server of                                        *)
(* src/Multithreaded_Stock_Exchange_Web_Server.cpp: the shared ledger      *)
(* sm::stockMap, the five transactions reset/create/buy/sell/status run    *)
(* by detached clientThread sessions, and the acceptor loop runServer      *)
(* with its thread-count gate.                                             *)
(*                                                                         *)
(* Granularity: one step per C++ statement that touches shared state; the  *)
(* last statement of a transaction, which sets the message, includes       *)
(* HTTPResponse writing it (both touch only the session's own data).  A    *)
(* single std::unordered_map call (find, operator[], at, clear) is taken   *)
(* as one indivisible step.  The mutex of a Stock that clear() destroyed   *)
(* while a session still refers to it is freed memory: each use of it is   *)
(* undefined behaviour and is modelled as a choice among UBOutcomes.       *)
(***************************************************************************)
EXTENDS Integers, FiniteSets, Sequences, TLC

\* ------------------------------------------------------------------ bounds
\* Number of client connections the connection source delivers.
MaxSessions == 4
\* Largest amount a request carries.
MaxAmount == 1
\* Width in bits of the model's unsigned int.  The program's is 32 bits wide;
\* TLC's integers are not wider than that, so the wrap-around is kept at
\* this width.
UIntBits == 8

\* ------------------------------------------------------- program constants
\* The maxThreads argument of runServer.
maxThreads == 2
\* unsigned int arithmetic is modulo 2^width.
UIntRange == 2^UIntBits
\* Balance of a Stock that operator[] value-initialises.
DefaultBalance == 0

Sessions == 1..MaxSessions
Stocks == {"ACME"}
Amounts == 1..MaxAmount
NoEntry == [balance |-> -1, owner |-> -1]
NoMsg == [text |-> "", val |-> 0]

\* The amount field of a request as the client wrote it: absent, a word
\* that is not a number, a minus sign and digits, or digits.
NoField == [kind |-> "missing", v |-> 0]
Number(a) == [kind |-> "number", v |-> a]
BadFields ==
    {NoField, [kind |-> "text", v |-> 0]}
    \cup {[kind |-> "negative", v |-> a] : a \in Amounts}

\* The values  unsigned int amount = 0; stream >> amount  can leave in
\* amount.  Nothing to read leaves the initial 0; a word that is not a
\* number stores 0; digits too large store the largest value; a negative
\* number is negated modulo 2^width by one library and stored as the
\* largest value by another.  The stream's fail state is never looked at.
ParseAmount(f) ==
    CASE f.kind = "number" -> {IF f.v < UIntRange THEN f.v ELSE UIntRange - 1}
      [] f.kind = "negative" -> {(UIntRange - (f.v % UIntRange)) % UIntRange, UIntRange - 1}
      [] OTHER -> {0}

\* What the request decoder hands to clientThread: trans, stock, amount
\* (with the amount field it was read from).
\* trans "" stands for a missing or unknown operation name.
Decode(t, n, f) ==
    {[trans |-> t, stock |-> n, amount |-> a, field |-> f] : a \in ParseAmount(f)}

NoRequest == [trans |-> "none", stock |-> "", amount |-> 0, field |-> NoField]

Requests ==
    Decode("reset", "", NoField)
    \cup Decode("", "", NoField)
    \cup UNION {Decode("status", n, NoField) : n \in Stocks}
    \cup UNION {Decode(t, n, Number(a)) :
                  t \in {"create", "buy", "sell"}, n \in Stocks, a \in Amounts}

\* Requests whose amount field is arbitrary.
FieldRequests ==
    UNION {Decode("status", n, NoField) : n \in Stocks}
    \cup UNION {Decode(t, n, f) :
                  t \in {"create", "buy", "sell"}, n \in Stocks,
                  f \in BadFields \cup {Number(a) : a \in Amounts}}

\* Outcomes of using a mutex that lives in freed memory.
UBOutcomes == {"proceeds", "crashes"}

VARIABLES
    stockMap,     \* sm::stockMap: stock name -> Stock (balance, mutex owner) or NoEntry
    threadCount,  \* sm::threadCount
    apc,          \* position of runServer in its loop
    client,       \* the connection runServer holds (0: none)
    accepted,     \* number of connections accepted so far
    pc,           \* position of each clientThread
    req,          \* the decoded request of each session
    msg,          \* the message each session returns
    ref,          \* state of the Stock whose mutex the session's Lock refers to
    crashed,      \* std::terminate was called or a use of freed memory trapped
    made          \* history: a create has written this stock since the last clear()

vars == <<stockMap, threadCount, apc, client, accepted, pc, req, msg, ref, crashed, made>>

\* ---------------------------------------------------------------- helpers
Present(n) == stockMap[n] # NoEntry

\* std::unordered_map::operator[]: the map after the lookup, with a
\* value-initialised Stock inserted when the key is absent.
Index(m, n) ==
    IF m[n] = NoEntry
    THEN [m EXCEPT ![n] = [balance |-> DefaultBalance, owner |-> 0]]
    ELSE m

\* ~unique_lock on the map m by session s.
Unlock(m, s) ==
    [n \in DOMAIN m |->
        IF m[n] # NoEntry /\ m[n].owner = s THEN [m[n] EXCEPT !.owner = 0] ELSE m[n]]

\* A faulty notify_all: sell forgets the notification.
NotifyNobody(p) == p

\* A faulty notify_all: notify_one, which wakes a single sleeping buyer.
NotifyOne(p) ==
    LET W == {t \in DOMAIN p : p[t] = "b_wait"}
    IN  IF W = {} THEN p
        ELSE [p EXCEPT ![CHOOSE t \in W : \A u \in W : t <= u] = "b_woken"]

\* sm::buyCond.notify_all(): every sleeping buyer is made runnable.
NotifyAll(p) == [t \in DOMAIN p |-> IF p[t] = "b_wait" THEN "b_woken" ELSE p[t]]

\* A faulty unlock: the mutex stays locked when the Lock goes out of scope.
ReleaseLockKept(s, m, o) ==
    /\ stockMap' = m
    /\ crashed' = crashed
    /\ o = "proceeds"

\* Releasing the session's mutex.  A live mutex is unlocked; a destroyed
\* one is undefined behaviour.
ReleaseLock(s, m, o) ==
    IF ref[s] = "dangling"
    THEN /\ stockMap' = m
         /\ crashed' = (o = "crashes")
    ELSE /\ stockMap' = Unlock(m, s)
         /\ crashed' = crashed
         /\ o = "proceeds"

Init ==
    /\ stockMap = [n \in Stocks |-> NoEntry]
    /\ threadCount = 0
    /\ apc = "accept"
    /\ client = 0
    /\ accepted = 0
    /\ pc = [s \in Sessions |-> "idle"]
    /\ req = [s \in Sessions |-> NoRequest]
    /\ msg = [s \in Sessions |-> NoMsg]
    /\ ref = [s \in Sessions |-> "none"]
    /\ crashed = FALSE
    /\ made = [n \in Stocks |-> FALSE]

\* ------------------------------------------------------------- runServer
\* server.accept: the next connection, carrying request r.
Accept(r) ==
    /\ ~crashed
    /\ apc = "accept"
    /\ accepted < MaxSessions
    /\ accepted' = accepted + 1
    /\ client' = accepted + 1
    /\ req' = [req EXCEPT ![accepted + 1] = r]
    /\ apc' = "gate"
    /\ UNCHANGED <<stockMap, threadCount, pc, msg, ref, crashed, made>>

\* A faulty runServer: past the gate it forgets the connection instead of
\* starting a thread for it.
GatePassDrops ==
    /\ ~crashed
    /\ apc = "gate"
    /\ threadCount < maxThreads
    /\ client' = 0
    /\ apc' = "accept"
    /\ UNCHANGED <<stockMap, threadCount, accepted, pc, req, msg, ref, crashed, made>>

\* The predicate of countCond.wait holds: the session thread is created
\* and detached, and the loop returns to accept.
GatePass ==
    /\ ~crashed
    /\ apc = "gate"
    /\ threadCount < maxThreads
    /\ pc' = [pc EXCEPT ![client] = "start"]
    /\ client' = 0
    /\ apc' = "accept"
    /\ UNCHANGED <<stockMap, threadCount, accepted, req, msg, ref, crashed, made>>

\* The predicate is false: the acceptor is about to sleep on countCond.
GateFull ==
    /\ ~crashed
    /\ apc = "gate"
    /\ ~(threadCount < maxThreads)
    /\ apc' = "towait"
    /\ UNCHANGED <<stockMap, threadCount, client, accepted, pc, req, msg, ref, crashed, made>>

\* The acceptor sleeps on countCond.
GateSleep ==
    /\ ~crashed
    /\ apc = "towait"
    /\ apc' = "waiting"
    /\ UNCHANGED <<stockMap, threadCount, client, accepted, pc, req, msg, ref, crashed, made>>

\* A spurious wake-up of countCond.wait: the predicate is evaluated again.
GateSpurious ==
    /\ ~crashed
    /\ apc = "waiting"
    /\ apc' = "gate"
    /\ UNCHANGED <<stockMap, threadCount, client, accepted, pc, req, msg, ref, crashed, made>>

\* A faulty dispatch: a transaction name it does not know is run as reset.
FirstStepLoose(t) ==
    CASE t = "create" -> "c_find"
      [] t = "buy" -> "b_find"
      [] t = "sell" -> "s_find"
      [] t = "status" -> "t_find"
      [] OTHER -> "reset"

\* ---------------------------------------------------------- clientThread
FirstStep(t) ==
    CASE t = "reset" -> "reset"
      [] t = "create" -> "c_find"
      [] t = "buy" -> "b_find"
      [] t = "sell" -> "s_find"
      [] t = "status" -> "t_find"
      [] OTHER -> "release"

\* sm::threadCount++, the request is read, msg = "Invalid request".  A
\* request that names no transaction goes straight to HTTPResponse.
Enter(s) ==
    /\ ~crashed
    /\ pc[s] = "start"
    /\ threadCount' = threadCount + 1
    /\ pc' = [pc EXCEPT ![s] = FirstStep(req[s].trans)]
    /\ msg' = [msg EXCEPT ![s] = [text |-> "Invalid request", val |-> 0]]
    /\ UNCHANGED <<stockMap, apc, client, accepted, req, ref, crashed, made>>

\* A faulty clientThread: after its response it gives the slot back and
\* serves the connection again.
ReleaseAndRepeat(s) ==
    /\ ~crashed
    /\ pc[s] = "release"
    /\ threadCount' = threadCount - 1
    /\ apc' = IF apc = "waiting" THEN "gate" ELSE apc
    /\ pc' = [pc EXCEPT ![s] = "start"]
    /\ UNCHANGED <<stockMap, client, accepted, req, msg, ref, crashed, made>>

\* sm::threadCount--; sm::countCond.notify_one().
Release(s) ==
    /\ ~crashed
    /\ pc[s] = "release"
    /\ threadCount' = threadCount - 1
    /\ apc' = IF apc = "waiting" THEN "gate" ELSE apc
    /\ pc' = [pc EXCEPT ![s] = "done"]
    /\ UNCHANGED <<stockMap, client, accepted, req, msg, ref, crashed, made>>

\* ------------------------------------------------------------------ reset
\* sm::stockMap.clear(): every Stock is destroyed, with its mutex.
Reset(s) ==
    /\ ~crashed
    /\ pc[s] = "reset"
    /\ stockMap' = [n \in Stocks |-> NoEntry]
    /\ ref' = [t \in DOMAIN ref |-> IF ref[t] = "live" THEN "dangling" ELSE ref[t]]
    /\ made' = [n \in Stocks |-> FALSE]
    /\ msg' = [msg EXCEPT ![s] = [text |-> "Stocks reset", val |-> 0]]
    /\ pc' = [pc EXCEPT ![s] = "release"]
    /\ UNCHANGED <<threadCount, apc, client, accepted, req, crashed>>

\* ------------------------------------------------------ locking a Stock
\* Lock lock(sm::stockMap[stock].mutex): operator[] finds or inserts the
\* Stock; the mutex is taken when free, else the session blocks on it.
LockStock(s, held, blocked) ==
    LET n == req[s].stock
        m == Index(stockMap, n)
    IN  /\ ~crashed
        /\ ref' = [ref EXCEPT ![s] = "live"]
        /\ IF m[n].owner = 0
           THEN /\ stockMap' = [m EXCEPT ![n].owner = s]
                /\ pc' = [pc EXCEPT ![s] = held]
           ELSE /\ stockMap' = m
                /\ pc' = [pc EXCEPT ![s] = blocked]
        /\ UNCHANGED <<threadCount, apc, client, accepted, req, msg, crashed, made>>

\* A session blocked in mutex.lock(), or a woken buyer taking its mutex
\* again, gets the mutex.  On a destroyed mutex this is undefined.
TakeLock(s, held) ==
    LET n == req[s].stock
    IN  /\ ~crashed
        /\ pc' = [pc EXCEPT ![s] = held]
        /\ IF ref[s] = "dangling"
           THEN /\ \E o \in UBOutcomes : crashed' = (o = "crashes")
                /\ UNCHANGED stockMap
           ELSE /\ stockMap[n].owner = 0
                /\ stockMap' = [stockMap EXCEPT ![n].owner = s]
                /\ UNCHANGED crashed
        /\ UNCHANGED <<threadCount, apc, client, accepted, req, msg, ref, made>>

\* A faulty lookup: the transaction goes on whether or not the stock exists.
FindStockUnchecked(s, found) ==
    /\ ~crashed
    /\ pc' = [pc EXCEPT ![s] = found]
    /\ UNCHANGED <<stockMap, threadCount, apc, client, accepted, req, msg, ref, crashed, made>>

\* The lookup sm::stockMap.find(stock) != end() that opens buy, sell and
\* status: on to the locked section, or "Stock not found".
FindStock(s, found) ==
    /\ ~crashed
    /\ IF Present(req[s].stock)
       THEN /\ pc' = [pc EXCEPT ![s] = found]
            /\ UNCHANGED msg
       ELSE /\ pc' = [pc EXCEPT ![s] = "release"]
            /\ msg' = [msg EXCEPT ![s] = [text |-> "Stock not found", val |-> 0]]
    /\ UNCHANGED <<stockMap, threadCount, apc, client, accepted, req, ref, crashed, made>>

\* ----------------------------------------------------------------- create
\* A faulty create: without the lookup it overwrites the stock.
CreateFindSkipped(s) ==
    /\ ~crashed
    /\ pc[s] = "c_find"
    /\ pc' = [pc EXCEPT ![s] = "c_name"]
    /\ UNCHANGED <<stockMap, threadCount, apc, client, accepted, req, msg, ref, crashed, made>>

\* if (sm::stockMap.find(stock) == sm::stockMap.end())
CreateFind(s) ==
    /\ ~crashed
    /\ pc[s] = "c_find"
    /\ IF Present(req[s].stock)
       THEN /\ pc' = [pc EXCEPT ![s] = "release"]
            /\ msg' = [msg EXCEPT ![s] = [text |-> "Stock already exists", val |-> 0]]
       ELSE /\ pc' = [pc EXCEPT ![s] = "c_name"]
            /\ UNCHANGED msg
    /\ UNCHANGED <<stockMap, threadCount, apc, client, accepted, req, ref, crashed, made>>

\* sm::stockMap[stock].name = stock
CreateName(s) ==
    /\ ~crashed
    /\ pc[s] = "c_name"
    /\ stockMap' = Index(stockMap, req[s].stock)
    /\ made' = [made EXCEPT ![req[s].stock] = TRUE]
    /\ pc' = [pc EXCEPT ![s] = "c_bal"]
    /\ UNCHANGED <<threadCount, apc, client, accepted, req, msg, ref, crashed>>

\* sm::stockMap[stock].balance = amount, and the "created" message.
CreateBalance(s) ==
    LET n == req[s].stock
    IN  /\ ~crashed
        /\ pc[s] = "c_bal"
        /\ stockMap' = [Index(stockMap, n) EXCEPT ![n].balance = req[s].amount]
        /\ msg' = [msg EXCEPT ![s] =
                     [text |-> "Stock created with balance =", val |-> req[s].amount]]
        /\ made' = [made EXCEPT ![n] = TRUE]
        /\ pc' = [pc EXCEPT ![s] = "release"]
        /\ UNCHANGED <<threadCount, apc, client, accepted, req, ref, crashed>>

\* -------------------------------------------------------------------- buy
BuyFind(s) == pc[s] = "b_find" /\ FindStock(s, "b_lock")

BuyLock(s) == pc[s] = "b_lock" /\ LockStock(s, "b_pred", "b_blocked")

BuyBlocked(s) == pc[s] = "b_blocked" /\ TakeLock(s, "b_pred")

\* Some buyer is asleep on sm::buyCond with a mutex other than the one
\* session s holds: the mutex of another stock, or the destroyed mutex of
\* an entry that a reset removed.
OtherMutexWaits(s) ==
    \E t \in DOMAIN pc \ {s} :
        /\ pc[t] = "b_wait"
        /\ \/ req[t].stock # req[s].stock
           \/ (ref[t] = "dangling" /\ ref[s] = "live")

\* A faulty predicate: amount < balance instead of amount <= balance.
BuyPredStrict(s) ==
    LET n == req[s].stock
    IN  /\ ~crashed
        /\ pc[s] = "b_pred"
        /\ IF ~Present(n)
           THEN /\ crashed' = TRUE
                /\ UNCHANGED <<stockMap, pc>>
           ELSE IF req[s].amount < stockMap[n].balance
           THEN /\ pc' = [pc EXCEPT ![s] = "b_dec"]
                /\ UNCHANGED <<stockMap, crashed>>
           ELSE /\ pc' = [pc EXCEPT ![s] = "b_wait"]
                /\ \E o \in UBOutcomes : ReleaseLock(s, stockMap, o)
        /\ UNCHANGED <<threadCount, apc, client, accepted, req, msg, ref, made>>

\* The predicate of sm::buyCond.wait, amount <= sm::stockMap.at(stock).balance,
\* evaluated with the session's mutex held.  at() throws std::out_of_range
\* when the stock is gone, which nothing catches: std::terminate.  When the
\* predicate is false the mutex is released and the session sleeps.
\* sm::buyCond is one std::condition_variable for all stocks: waiting on it
\* with a mutex other than the one of the buyers already asleep breaks the
\* precondition of wait and is undefined behaviour.
BuyPred(s) ==
    LET n == req[s].stock
    IN  /\ ~crashed
        /\ pc[s] = "b_pred"
        /\ IF ~Present(n)
           THEN /\ crashed' = TRUE
                /\ UNCHANGED <<stockMap, pc>>
           ELSE IF req[s].amount <= stockMap[n].balance
           THEN /\ pc' = [pc EXCEPT ![s] = "b_dec"]
                /\ UNCHANGED <<stockMap, crashed>>
           ELSE /\ pc' = [pc EXCEPT ![s] = "b_wait"]
                /\ \E o \in UBOutcomes :
                      IF OtherMutexWaits(s) /\ o = "crashes"
                      THEN /\ crashed' = TRUE
                           /\ UNCHANGED stockMap
                      ELSE ReleaseLock(s, stockMap, o)
        /\ UNCHANGED <<threadCount, apc, client, accepted, req, msg, ref, made>>

\* A spurious wake-up of sm::buyCond.wait.
BuySpurious(s) ==
    /\ ~crashed
    /\ pc[s] = "b_wait"
    /\ pc' = [pc EXCEPT ![s] = "b_woken"]
    /\ UNCHANGED <<stockMap, threadCount, apc, client, accepted, req, msg, ref, crashed, made>>

BuyWoken(s) == pc[s] = "b_woken" /\ TakeLock(s, "b_pred")

\* unsigned subtraction.
SubU(b, a) == (b - a) % UIntRange

\* sm::stockMap[stock].balance -= amount, the message, and the unlock at
\* the end of the block.
BuyDec(s) ==
    LET n == req[s].stock
        m == Index(stockMap, n)
    IN  /\ ~crashed
        /\ pc[s] = "b_dec"
        /\ \E o \in UBOutcomes :
             ReleaseLock(s, [m EXCEPT ![n].balance = SubU(m[n].balance, req[s].amount)], o)
        /\ msg' = [msg EXCEPT ![s] = [text |-> "Stock's balance updated", val |-> 0]]
        /\ pc' = [pc EXCEPT ![s] = "release"]
        /\ ref' = [ref EXCEPT ![s] = "none"]
        /\ UNCHANGED <<threadCount, apc, client, accepted, req, made>>

\* ------------------------------------------------------------------- sell
SellFind(s) == pc[s] = "s_find" /\ FindStock(s, "s_lock")

SellLock(s) == pc[s] = "s_lock" /\ LockStock(s, "s_upd", "s_blocked")

SellBlocked(s) == pc[s] = "s_blocked" /\ TakeLock(s, "s_upd")

\* unsigned addition.
AddU(b, a) == (b + a) % UIntRange

\* sm::stockMap[stock].balance += amount, sm::buyCond.notify_all(), the
\* message, and the unlock at the end of the block.
SellUpdate(s) ==
    LET n == req[s].stock
        m == Index(stockMap, n)
    IN  /\ ~crashed
        /\ pc[s] = "s_upd"
        /\ \E o \in UBOutcomes :
             ReleaseLock(s, [m EXCEPT ![n].balance = AddU(m[n].balance, req[s].amount)], o)
        /\ msg' = [msg EXCEPT ![s] = [text |-> "Stock's balance updated", val |-> 0]]
        /\ pc' = [NotifyAll(pc) EXCEPT ![s] = "release"]
        /\ ref' = [ref EXCEPT ![s] = "none"]
        /\ UNCHANGED <<threadCount, apc, client, accepted, req, made>>

\* ----------------------------------------------------------------- status
StatusFind(s) == pc[s] = "t_find" /\ FindStock(s, "t_lock")

StatusLock(s) == pc[s] = "t_lock" /\ LockStock(s, "t_read", "t_blocked")

StatusBlocked(s) == pc[s] = "t_blocked" /\ TakeLock(s, "t_read")

\* auto balance = sm::stockMap[stock].balance, the message, and the unlock
\* at the end of the block.
StatusRead(s) ==
    LET n == req[s].stock
        m == Index(stockMap, n)
    IN  /\ ~crashed
        /\ pc[s] = "t_read"
        /\ \E o \in UBOutcomes : ReleaseLock(s, m, o)
        /\ msg' = [msg EXCEPT ![s] = [text |-> "Balance for stock =", val |-> m[n].balance]]
        /\ pc' = [pc EXCEPT ![s] = "release"]
        /\ ref' = [ref EXCEPT ![s] = "none"]
        /\ UNCHANGED <<threadCount, apc, client, accepted, req, made>>

\* ---------------------------------------------------------- specification
Next ==
    \/ \E r \in Requests : Accept(r)
    \/ GatePass
    \/ GateFull
    \/ GateSleep
    \/ GateSpurious
    \/ \E s \in Sessions :
         \/ Enter(s)
         \/ Release(s)
         \/ Reset(s)
         \/ CreateFind(s)
         \/ CreateName(s)
         \/ CreateBalance(s)
         \/ BuyFind(s)
         \/ BuyLock(s)
         \/ BuyBlocked(s)
         \/ BuyPred(s)
         \/ BuySpurious(s)
         \/ BuyWoken(s)
         \/ BuyDec(s)
         \/ SellFind(s)
         \/ SellLock(s)
         \/ SellBlocked(s)
         \/ SellUpdate(s)
         \/ StatusFind(s)
         \/ StatusLock(s)
         \/ StatusBlocked(s)
         \/ StatusRead(s)

Spec == Init /\ [][Next]_vars

\* The session has returned from its transaction and written its response.
Responded(s) == pc[s] \in {"release", "done"}

\* ------------------------------------------------- one request at a time
\* A client that sends its next request only after it has read the response
\* to the one before.
SeqAccept(r) ==
    /\ \A s \in 1..accepted : Responded(s)
    /\ Accept(r)

SeqNext ==
    \/ \E r \in Requests : SeqAccept(r)
    \/ GatePass
    \/ GateFull
    \/ GateSleep
    \/ GateSpurious
    \/ \E s \in Sessions :
         \/ Enter(s)
         \/ Release(s)
         \/ Reset(s)
         \/ CreateFind(s)
         \/ CreateName(s)
         \/ CreateBalance(s)
         \/ BuyFind(s)
         \/ BuyLock(s)
         \/ BuyPred(s)
         \/ BuySpurious(s)
         \/ BuyWoken(s)
         \/ BuyDec(s)
         \/ SellFind(s)
         \/ SellLock(s)
         \/ SellUpdate(s)
         \/ StatusFind(s)
         \/ StatusLock(s)
         \/ StatusRead(s)

SeqSpec == Init /\ [][SeqNext]_vars

\* The same single client sending requests whose amount field may be
\* missing, not a number or negative.
ParseNext ==
    \/ \E r \in FieldRequests : SeqAccept(r)
    \/ GatePass
    \/ GateFull
    \/ GateSleep
    \/ GateSpurious
    \/ \E s \in Sessions :
         \/ Enter(s)
         \/ Release(s)
         \/ CreateFind(s)
         \/ CreateName(s)
         \/ CreateBalance(s)
         \/ BuyFind(s)
         \/ BuyLock(s)
         \/ BuyPred(s)
         \/ BuySpurious(s)
         \/ BuyWoken(s)
         \/ BuyDec(s)
         \/ SellFind(s)
         \/ SellLock(s)
         \/ SellUpdate(s)
         \/ StatusFind(s)
         \/ StatusLock(s)
         \/ StatusRead(s)

ParseSpec == Init /\ [][ParseNext]_vars

\* ------------------------------------------------- the end-to-end scenario
\* create ACME 100; status ACME; buy ACME 150 with sell ACME 100 sent while
\* the buy is outstanding; status ACME once both have answered.
Script ==
    << CHOOSE r \in Decode("create", "ACME", Number(100)) : TRUE,
       CHOOSE r \in Decode("status", "ACME", NoField) : TRUE,
       CHOOSE r \in Decode("buy", "ACME", Number(150)) : TRUE,
       CHOOSE r \in Decode("sell", "ACME", Number(100)) : TRUE,
       CHOOSE r \in Decode("status", "ACME", NoField) : TRUE >>

ScnSessions == 1..Len(Script)

\* The responses the client waits for before it sends request i.
ScnAwaits(i) ==
    CASE i = 2 -> {1}
      [] i = 3 -> {2}
      [] i = 5 -> {3, 4}
      [] OTHER -> {}

ScnInit ==
    /\ stockMap = [n \in Stocks |-> NoEntry]
    /\ threadCount = 0
    /\ apc = "accept"
    /\ client = 0
    /\ accepted = 0
    /\ pc = [s \in ScnSessions |-> "idle"]
    /\ req = [s \in ScnSessions |-> NoRequest]
    /\ msg = [s \in ScnSessions |-> NoMsg]
    /\ ref = [s \in ScnSessions |-> "none"]
    /\ crashed = FALSE
    /\ made = [n \in Stocks |-> FALSE]

ScnAccept ==
    /\ ~crashed
    /\ apc = "accept"
    /\ accepted < Len(Script)
    /\ \A s \in ScnAwaits(accepted + 1) : Responded(s)
    /\ accepted' = accepted + 1
    /\ client' = accepted + 1
    /\ req' = [req EXCEPT ![accepted + 1] = Script[accepted + 1]]
    /\ apc' = "gate"
    /\ UNCHANGED <<stockMap, threadCount, pc, msg, ref, crashed, made>>

\* The steps runServer takes when it is scheduled.
ScnAcceptor == ScnAccept \/ GatePass \/ GateFull \/ GateSleep

\* The steps session s takes when it is scheduled.
ScnSession(s) ==
    \/ Enter(s)
    \/ Release(s)
    \/ CreateFind(s)
    \/ CreateName(s)
    \/ CreateBalance(s)
    \/ BuyFind(s)
    \/ BuyLock(s)
    \/ BuyBlocked(s)
    \/ BuyPred(s)
    \/ BuyWoken(s)
    \/ BuyDec(s)
    \/ SellFind(s)
    \/ SellLock(s)
    \/ SellBlocked(s)
    \/ SellUpdate(s)
    \/ StatusFind(s)
    \/ StatusLock(s)
    \/ StatusRead(s)

ScnNext ==
    \/ ScnAcceptor
    \/ GateSpurious
    \/ \E s \in ScnSessions : ScnSession(s) \/ BuySpurious(s)

\* Every runnable thread is scheduled eventually; nothing promises a
\* spurious wake-up.
ScnSpec ==
    /\ ScnInit
    /\ [][ScnNext]_vars
    /\ WF_vars(ScnAcceptor)
    /\ \A s \in ScnSessions : WF_vars(ScnSession(s))

\* A second scenario: after create(ACME,1) has answered, the client sends
\* buy(ACME,2), buy(ACME,3) and sell(ACME,4) without waiting in between,
\* and status(ACME) once the three have answered.
WakeScript ==
    << CHOOSE r \in Decode("create", "ACME", Number(1)) : TRUE,
       CHOOSE r \in Decode("buy", "ACME", Number(2)) : TRUE,
       CHOOSE r \in Decode("buy", "ACME", Number(3)) : TRUE,
       CHOOSE r \in Decode("sell", "ACME", Number(4)) : TRUE,
       CHOOSE r \in Decode("status", "ACME", NoField) : TRUE >>

WakeSessions == 1..Len(WakeScript)

\* The responses the client waits for before it sends request i.
WakeAwaits(i) ==
    CASE i = 1 -> {}
      [] i = 5 -> {2, 3, 4}
      [] OTHER -> {1}

WakeInit ==
    /\ stockMap = [n \in Stocks |-> NoEntry]
    /\ threadCount = 0
    /\ apc = "accept"
    /\ client = 0
    /\ accepted = 0
    /\ pc = [s \in WakeSessions |-> "idle"]
    /\ req = [s \in WakeSessions |-> NoRequest]
    /\ msg = [s \in WakeSessions |-> NoMsg]
    /\ ref = [s \in WakeSessions |-> "none"]
    /\ crashed = FALSE
    /\ made = [n \in Stocks |-> FALSE]

WakeAccept ==
    /\ ~crashed
    /\ apc = "accept"
    /\ accepted < Len(WakeScript)
    /\ \A s \in WakeAwaits(accepted + 1) : Responded(s)
    /\ accepted' = accepted + 1
    /\ client' = accepted + 1
    /\ req' = [req EXCEPT ![accepted + 1] = WakeScript[accepted + 1]]
    /\ apc' = "gate"
    /\ UNCHANGED <<stockMap, threadCount, pc, msg, ref, crashed, made>>

WakeAcceptor == WakeAccept \/ GatePass \/ GateFull \/ GateSleep

WakeNext ==
    \/ WakeAcceptor
    \/ GateSpurious
    \/ \E s \in WakeSessions : ScnSession(s) \/ BuySpurious(s)

WakeSpec ==
    /\ WakeInit
    /\ [][WakeNext]_vars
    /\ WF_vars(WakeAcceptor)
    /\ \A s \in WakeSessions : WF_vars(ScnSession(s))

\* Two stocks traded side by side.
PairStocks == Stocks \cup {"ZETA"}

\* create, buy, sell and status on the first stock, create and buy on the
\* second.
PairRequests ==
    UNION {Decode(t, n, Number(a)) :
             t \in {"create", "buy", "sell"}, n \in Stocks, a \in Amounts}
    \cup UNION {Decode("status", n, NoField) : n \in Stocks}
    \cup UNION {Decode(t, n, Number(a)) :
                  t \in {"create", "buy"}, n \in PairStocks \ Stocks, a \in Amounts}

PairInit ==
    /\ stockMap = [n \in PairStocks |-> NoEntry]
    /\ threadCount = 0
    /\ apc = "accept"
    /\ client = 0
    /\ accepted = 0
    /\ pc = [s \in Sessions |-> "idle"]
    /\ req = [s \in Sessions |-> NoRequest]
    /\ msg = [s \in Sessions |-> NoMsg]
    /\ ref = [s \in Sessions |-> "none"]
    /\ crashed = FALSE
    /\ made = [n \in PairStocks |-> FALSE]

PairNext ==
    \/ \E r \in PairRequests : Accept(r)
    \/ GatePass
    \/ GateFull
    \/ GateSleep
    \/ GateSpurious
    \/ \E s \in Sessions : ScnSession(s) \/ StatusBlocked(s) \/ BuySpurious(s)

PairSpec == PairInit /\ [][PairNext]_vars


\* ------------------------------------------------------- state functions
\* The session has incremented sm::threadCount and not yet decremented it.
Active(s) == pc[s] \notin {"idle", "start", "done"}

\* The session is inside reset, create, buy, sell or status.
InProcessor(s) == pc[s] \notin {"idle", "start", "release", "done"}

Returned(s, t, n, text) ==
    /\ req[s].trans = t
    /\ req[s].stock = n
    /\ Responded(s)
    /\ msg[s].text = text

Created(n) == {s \in DOMAIN pc : Returned(s, "create", n, "Stock created with balance =")}
Sold(n) == {s \in DOMAIN pc : Returned(s, "sell", n, "Stock's balance updated")}
Bought(n) == {s \in DOMAIN pc : Returned(s, "buy", n, "Stock's balance updated")}

RECURSIVE SumAmounts(_)
SumAmounts(S) ==
    IF S = {} THEN 0
    ELSE LET s == CHOOSE x \in S : TRUE
         IN  req[s].amount + SumAmounts(S \ {s})

\* No reset transaction has started.
NoResetYet == \A s \in DOMAIN pc : req[s].trans = "reset" => pc[s] \in {"idle", "start"}

\* ------------------------------------------------------------------ claims
\* C1: with maxThreads = N, at most N sessions are at any instant between
\* their increment of the thread count and their release of the slot.
C1_AdmissionBound == Cardinality({s \in DOMAIN pc : Active(s)}) <= maxThreads

\* C2: for every stock the amounts of the buys that returned success never
\* add up to more than the amounts of the successful creates and sells.
C2_NoDoubleSpend ==
    \A n \in Stocks : SumAmounts(Bought(n)) <= SumAmounts(Created(n) \cup Sold(n))

\* C3: a buy never subtracts an amount larger than the balance stored at the
\* moment of the subtraction, so the unsigned balance never wraps below zero.
C3_NoUnderflow ==
    [][\A s \in DOMAIN pc :
         (pc[s] = "b_dec" /\ pc'[s] = "release")
           => req[s].amount <= Index(stockMap, req[s].stock)[req[s].stock].balance]_vars

\* C4: in a state where the stock exists with a balance below the amount, a
\* step of the buy neither returns nor changes the balance.
C4_BuyBlocksWhileShort ==
    [][\A s \in DOMAIN pc :
         LET n == req[s].stock
         IN  (/\ req[s].trans = "buy"
              /\ pc[s] \in {"b_find", "b_lock", "b_blocked", "b_pred", "b_woken", "b_dec"}
              /\ pc'[s] # pc[s]
              /\ Present(n)
              /\ stockMap[n].balance < req[s].amount)
             => /\ pc'[s] # "release"
                /\ stockMap'[n] # NoEntry
                /\ stockMap'[n].balance = stockMap[n].balance]_vars

\* C5: in the scenario the first status reports 100, the buy of 150 does not
\* complete before the sell of 100 has, it completes eventually once the
\* sell has, and the final status reports 50.
C5_Scenario ==
    /\ [](Responded(2) => msg[2] = [text |-> "Balance for stock =", val |-> 100])
    /\ [](Responded(3) => Responded(4))
    /\ (Responded(4) ~> Responded(3))
    /\ [](Responded(5) => msg[5] = [text |-> "Balance for stock =", val |-> 50])

\* The scenario has run to its end: the buy was fulfilled and the final
\* status has reported 50.
C5_Witness ==
    /\ DOMAIN pc = ScnSessions
    /\ Returned(3, "buy", "ACME", "Stock's balance updated")
    /\ Responded(5)
    /\ msg[5].val = 50

\* C6: of the creates of one new name, at most one returns "created".
C6_CreateAtomic ==
    NoResetYet => \A n \in Stocks : Cardinality(Created(n)) <= 1

\* The last reset among the sessions before s (0: none).
LastReset(s) ==
    LET R == {r \in 1..(s - 1) : req[r].trans = "reset"}
    IN  IF R = {} THEN 0 ELSE CHOOSE r \in R : \A q \in R : q <= r

\* The creates of stock n between the last reset before s and s.
CreatesBefore(s, n) ==
    {t \in (LastReset(s) + 1)..(s - 1) : req[t].trans = "create" /\ req[t].stock = n}

\* C7: in a sequence of calls the first create of a name returns "created"
\* with its amount, every later create of it with no reset in between returns
\* "already exists", and when no call is running the balance is the first
\* create's amount changed only by the sells and buys after it.
C7_CreateOnce ==
    /\ \A s \in DOMAIN pc :
         (req[s].trans = "create" /\ Responded(s))
         => msg[s] = IF CreatesBefore(s, req[s].stock) = {}
                     THEN [text |-> "Stock created with balance =", val |-> req[s].amount]
                     ELSE [text |-> "Stock already exists", val |-> 0]
    /\ \A n \in Stocks :
         (Present(n) /\ \A s \in DOMAIN pc : ~InProcessor(s))
         => \E c \in Created(n) :
              /\ \A r \in DOMAIN pc : (req[r].trans = "reset" /\ Responded(r)) => r < c
              /\ stockMap[n].balance =
                   req[c].amount
                   + SumAmounts({s \in Sold(n) : s > c})
                   - SumAmounts({s \in Bought(n) : s > c})

\* A create of an existing name has answered "already exists" after a sell
\* had raised the balance to 2, and the balance is still 2.
C7_Witness ==
    /\ \E s \in DOMAIN pc : Returned(s, "create", "ACME", "Stock already exists")
    /\ \A s \in DOMAIN pc : ~InProcessor(s)
    /\ stockMap["ACME"] # NoEntry
    /\ stockMap["ACME"].balance = 2

\* C8: a reset that runs while a buy, sell or status is in flight never
\* makes that transaction end the process or use a destroyed Stock's mutex.
C8_ResetGraceful == ~crashed /\ \A s \in DOMAIN pc : ref[s] # "dangling"

\* C9: once a reset has completed, a status on a name that no create has
\* written since the last reset returns "Stock not found".
C9_StatusAfterReset ==
    [][\A t \in DOMAIN pc :
         (/\ pc[t] = "t_find"
          /\ pc'[t] # "t_find"
          /\ ~made[req[t].stock]
          /\ \E r \in DOMAIN pc : req[r].trans = "reset" /\ Responded(r))
         => /\ pc'[t] = "release"
            /\ msg'[t].text = "Stock not found"]_vars

\* C10: with no reset and no transaction in progress on a stock, its balance
\* is the amount of the create that made it plus the successful sells minus
\* the fulfilled buys.
C10_NoLostUpdate ==
    \A n \in Stocks :
        (/\ NoResetYet
         /\ Present(n)
         /\ \A s \in DOMAIN pc : req[s].stock = n => ~InProcessor(s))
        => \E c \in Created(n) :
             stockMap[n].balance =
                 req[c].amount + SumAmounts(Sold(n)) - SumAmounts(Bought(n))

\* No create of stock n has got past its lookup.
NeverCreated(n) ==
    \A s \in DOMAIN pc :
        (req[s].trans = "create" /\ req[s].stock = n) => pc[s] \in {"idle", "start", "c_find"}

\* C11: a buy, sell or status whose lookup finds the stock absent returns
\* "Stock not found" in that step and leaves the ledger as it is; a buy of a
\* stock that was never created is never in or past the wait.
C11_AbsentNotFound ==
    /\ [][\A s \in DOMAIN pc :
            (/\ pc[s] \in {"b_find", "s_find", "t_find"}
             /\ pc'[s] # pc[s]
             /\ ~Present(req[s].stock))
            => /\ pc'[s] = "release"
               /\ msg'[s] = [text |-> "Stock not found", val |-> 0]
               /\ stockMap' = stockMap]_vars
    /\ [](\A s \in DOMAIN pc :
            (req[s].trans = "buy" /\ NeverCreated(req[s].stock))
            => pc[s] \in {"idle", "start", "b_find", "release", "done"})

\* A buy of a stock that is not in the ledger has answered "Stock not found".
C11_Witness ==
    /\ \E s \in DOMAIN pc : Returned(s, "buy", "ACME", "Stock not found")
    /\ ~Present("ACME")
    /\ NeverCreated("ACME")

\* C12: a create, buy or sell whose amount field is missing, not a number
\* or negative is answered "Invalid request", and no step of it changes the
\* ledger.
C12_BadAmountInvalid ==
    /\ [](\A s \in DOMAIN pc :
            (/\ req[s].trans \in {"create", "buy", "sell"}
             /\ req[s].field \in BadFields
             /\ Responded(s))
            => msg[s].text = "Invalid request")
    /\ [][\A s \in DOMAIN pc :
            (/\ req[s].trans \in {"create", "buy", "sell"}
             /\ req[s].field \in BadFields
             /\ pc'[s] # pc[s])
            => stockMap' = stockMap]_vars

\* The transaction names clientThread dispatches on.
Operations == {"reset", "create", "buy", "sell", "status"}

\* C13: a request whose operation name is missing or is none of reset,
\* create, buy, sell, status is answered "Invalid request", and no step of
\* its session changes the ledger.
C13_UnknownInvalid ==
    /\ [](\A s \in DOMAIN pc :
            (s <= accepted /\ req[s].trans \notin Operations /\ Responded(s))
            => msg[s] = [text |-> "Invalid request", val |-> 0])
    /\ [][\A s \in DOMAIN pc :
            (s <= accepted /\ req[s].trans \notin Operations /\ pc'[s] # pc[s])
            => stockMap' = stockMap]_vars

\* A request with no operation name has been answered "Invalid request"
\* while the ledger holds a stock.
C13_Witness ==
    \E s \in DOMAIN pc :
        /\ req[s].trans = ""
        /\ Responded(s)
        /\ msg[s].text = "Invalid request"
        /\ Present("ACME")
        /\ stockMap["ACME"].balance > 0

\* The sell sessions on stock n that have reached their update.
SellsReached(n) ==
    {s \in DOMAIN pc : /\ req[s].trans = "sell"
                       /\ req[s].stock = n
                       /\ pc[s] \in {"s_upd", "release", "done"}}

\* C14: the balance a status reports is one that a create, sell or buy on
\* the stock left behind.  As long as no reset and no buy has started, that
\* is the amount of a create of the stock plus the amounts of some of the
\* sells that have reached their update.
C14_StatusLinearizable ==
    \A t \in DOMAIN pc :
        (/\ req[t].trans = "status"
         /\ Responded(t)
         /\ msg[t].text = "Balance for stock ="
         /\ NoResetYet
         /\ \A b \in DOMAIN pc : req[b].trans = "buy" => pc[b] \in {"idle", "start"})
        => \E c \in DOMAIN pc : \E S \in SUBSET SellsReached(req[t].stock) :
              /\ req[c].trans = "create"
              /\ req[c].stock = req[t].stock
              /\ pc[c] \notin {"idle", "start"}
              /\ msg[t].val = (req[c].amount + SumAmounts(S)) % UIntRange

\* C15: no session raises an error that ends the process: std::terminate is
\* never called, and no buy stands before its wait predicate, which looks
\* the stock up with at(), while the stock is not in the ledger.
C15_NeverFatal ==
    /\ ~crashed
    /\ \A s \in DOMAIN pc : pc[s] = "b_pred" => Present(req[s].stock)

\* C16: 0 <= threadCount <= maxThreads in every state.
C16_CountInRange == threadCount \in 0..maxThreads

\* C17: the acceptor passes the gate only when threadCount < maxThreads, and
\* when it evaluates the gate every session it has admitted has already
\* been counted.
C17_SlotAtomic ==
    /\ [][(apc = "gate" /\ apc' = "accept") => threadCount < maxThreads]_vars
    /\ [](apc = "gate" => \A s \in DOMAIN pc : pc[s] # "start")

\* C18: a release is never lost on the gate.  A session that decrements
\* and notifies while the acceptor is at capacity, whether already asleep
\* or between its predicate and its sleep, leaves the acceptor awake; and
\* the acceptor is never asleep on a pending connection when no session is
\* left to notify it.
C18_GateWakes ==
    /\ [](apc = "waiting" => \E s \in DOMAIN pc : pc[s] \notin {"idle", "done"})
    /\ [][\A s \in DOMAIN pc :
            (pc[s] = "release" /\ pc'[s] = "done" /\ apc \in {"towait", "waiting"})
            => apc' = "gate"]_vars

\* C19: a stock enters the ledger only by a step of a create of that stock
\* and leaves it only by a reset; no buy, sell or status inserts one.
C19_OnlyCreateInserts ==
    [][\A n \in Stocks :
         /\ (~Present(n) /\ Present(n)')
            => \E s \in DOMAIN pc :
                  /\ req[s].trans = "create"
                  /\ req[s].stock = n
                  /\ pc[s] \in {"c_name", "c_bal"}
                  /\ pc'[s] # pc[s]
         /\ (Present(n) /\ ~Present(n)')
            => \E s \in DOMAIN pc : pc[s] = "reset" /\ pc'[s] = "release"]_vars

\* The positions of buy, sell and status at which the session holds the
\* Lock on the stock's mutex.
LockedSection == {"b_pred", "b_dec", "s_upd", "t_read"}

\* C20: at most one session at a time is inside the locked section of buy,
\* sell or status for a stock, and every step that changes the balance of a
\* stock (create's included) is taken by the session that holds the stock's
\* mutex.
C20_MutualExclusion ==
    /\ [](\A n \in Stocks :
            Cardinality({s \in DOMAIN pc :
                            req[s].stock = n /\ pc[s] \in LockedSection}) <= 1)
    /\ [][\A n \in Stocks :
            (Index(stockMap, n)[n].balance # Index(stockMap', n)[n].balance)
            => \E s \in DOMAIN pc :
                  /\ Present(n)
                  /\ stockMap[n].owner = s
                  /\ pc'[s] # pc[s]]_vars

\* C21: while a buy stands between its predicate, which held, and its
\* decrement, no step changes the entry of its stock: the balance it
\* decrements is the balance it checked.
C21_BuyAtomic ==
    [][\A s \in DOMAIN pc :
         (pc[s] = "b_dec" /\ pc'[s] = "b_dec")
         => stockMap'[req[s].stock] = stockMap[req[s].stock]]_vars

\* The session has looked its stock up and has not yet made its last
\* access to the entry.
MidAccess(s) ==
    pc[s] \in {"c_name", "c_bal",
               "b_lock", "b_blocked", "b_pred", "b_wait", "b_woken", "b_dec",
               "s_lock", "s_blocked", "s_upd",
               "t_lock", "t_blocked", "t_read"}

\* C22: the clear of a reset and the insert of a create are never executed
\* while another session is between its lookup of a stock and its last
\* access to the entry (a create between its lookup and its last write
\* included).
C22_StructuralSerialized ==
    [][\A s \in DOMAIN pc :
         (pc[s] \in {"reset", "c_name"} /\ pc'[s] # pc[s])
         => \A t \in DOMAIN pc \ {s} : ~MidAccess(t)]_vars

\* C23: a buyer in its wait does not hold the mutex of its stock; a woken
\* buyer takes that mutex again and evaluates its predicate, going on to
\* the decrement when amount <= balance and back to the wait, the balance
\* unchanged, when not.
C23_WaitReleasesLock ==
    /\ [](\A s \in DOMAIN pc :
            pc[s] \in {"b_wait", "b_woken"}
            => ~(Present(req[s].stock) /\ stockMap[req[s].stock].owner = s))
    /\ [][\A s \in DOMAIN pc :
            LET n == req[s].stock
            IN  /\ (pc[s] = "b_woken" /\ pc'[s] # pc[s])
                   => /\ pc'[s] = "b_pred"
                      /\ Present(n)'
                      /\ stockMap'[n].owner = s
                /\ (pc[s] = "b_pred" /\ pc'[s] # pc[s])
                   => /\ Present(n)
                      /\ ~crashed'
                      /\ req[s].amount <= stockMap[n].balance => pc'[s] = "b_dec"
                      /\ req[s].amount > stockMap[n].balance
                         => /\ pc'[s] = "b_wait"
                            /\ Present(n)'
                            /\ stockMap'[n].balance = stockMap[n].balance]_vars

\* C24: the step of a sell that raises the balance wakes every buyer
\* sleeping in its wait; in the scenario of two buyers of 2 and 3 and a sell
\* of 4 on a balance of 1, no buyer is answered before the sell, once the
\* sell has answered both buyers are answered eventually, and the status
\* that follows reports 0.
C24_SellWakesAll ==
    /\ [][\A s \in DOMAIN pc :
            (pc[s] = "s_upd" /\ pc'[s] = "release")
            => /\ stockMap'[req[s].stock].balance
                    = AddU(stockMap[req[s].stock].balance, req[s].amount)
               /\ \A b \in DOMAIN pc : pc[b] = "b_wait" => pc'[b] = "b_woken"]_vars
    /\ [](\A b \in {2, 3} : Responded(b) => Responded(4))
    /\ (Responded(4) ~> (Returned(2, "buy", "ACME", "Stock's balance updated")
                         /\ Returned(3, "buy", "ACME", "Stock's balance updated")))
    /\ [](Responded(5) => msg[5] = [text |-> "Balance for stock =", val |-> 0])

\* Both buyers were asleep when the sell raised the balance to 5 and have
\* been woken by it.
C24_Witness ==
    /\ DOMAIN pc = WakeSessions
    /\ pc[2] = "b_woken"
    /\ pc[3] = "b_woken"
    /\ pc[4] = "release"
    /\ stockMap["ACME"].balance = 5

\* C25: after a reset, the create that stores a balance sufficient for a
\* buyer asleep in its wait on that name wakes the buyer.
C25_CreateNotifies ==
    [][\A c \in DOMAIN pc :
         (/\ pc[c] = "c_bal"
          /\ pc'[c] = "release"
          /\ \E r \in DOMAIN pc : req[r].trans = "reset" /\ Responded(r))
         => \A b \in DOMAIN pc :
               (/\ req[b].trans = "buy"
                /\ req[b].stock = req[c].stock
                /\ pc[b] = "b_wait"
                /\ req[b].amount <= req[c].amount)
               => pc'[b] = "b_woken"]_vars

\* The positions inside the operation clientThread calls for trans t.
OpSteps(t) ==
    CASE t = "reset" -> {"reset"}
      [] t = "create" -> {"c_find", "c_name", "c_bal"}
      [] t = "buy" -> {"b_find", "b_lock", "b_blocked", "b_pred", "b_wait", "b_woken", "b_dec"}
      [] t = "sell" -> {"s_find", "s_lock", "s_blocked", "s_upd"}
      [] t = "status" -> {"t_find", "t_lock", "t_blocked", "t_read"}
      [] OTHER -> {}

Waiters == {s \in DOMAIN pc : req[s].trans = "buy" /\ pc[s] = "b_wait"}

\* C27: while maxThreads sessions are all asleep in a buy, no step admits a
\* further session and no sell is processed.
C27_WaitersKeepSlots ==
    [][Cardinality(Waiters) >= maxThreads
       => /\ \A s \in DOMAIN pc : pc[s] = "idle" => pc'[s] = "idle"
          /\ \A s \in DOMAIN pc : ~(pc[s] = "s_upd" /\ pc'[s] = "release")]_vars

\* The step is one that session s takes itself (being woken is not).
Acts(s) == pc'[s] # pc[s] /\ ~(pc[s] = "b_wait" /\ pc'[s] = "b_woken") /\ pc[s] # "idle"

\* C29: a step of a create, buy, sell or status on one stock leaves the
\* entry of every other stock as it is, and blocks only on the mutex of its
\* own stock; a buyer whose predicate fails, woken by a sell on another
\* stock or not, goes (back) to its wait with the balance unchanged.
C29_Independent ==
    [][\A s \in DOMAIN pc :
         LET n == req[s].stock
         IN  Acts(s)
             => /\ \A m \in DOMAIN stockMap \ {n} : stockMap'[m] = stockMap[m]
                /\ pc'[s] \in {"b_blocked", "s_blocked", "t_blocked"}
                   => stockMap'[n].owner \notin {0, s}
                /\ (pc[s] = "b_pred" /\ Present(n) /\ req[s].amount > stockMap[n].balance)
                   => /\ pc'[s] = "b_wait"
                      /\ ~crashed'
                      /\ stockMap'[n].balance = stockMap[n].balance]_vars

\* C30: the step of a sell that adds its amount never leaves the balance of
\* the stock lower than it found it, whatever the amount and the balance.
C30_SellNeverLowers ==
    [][\A s \in DOMAIN pc :
         (pc[s] = "s_upd" /\ pc'[s] = "release" /\ Present(req[s].stock))
         => /\ Present(req[s].stock)'
            /\ stockMap'[req[s].stock].balance >= stockMap[req[s].stock].balance]_vars

\* The stocks whose mutex session s owns.
Held(s) == {n \in DOMAIN stockMap : Present(n) /\ stockMap[n].owner = s}

\* C31: as long as the process runs, the owner of a stock's mutex is a
\* session, never the acceptor; a session owns at most one mutex, and only
\* inside the locked section of its own stock; a session blocked on a
\* mutex, asleep in a wait or outside its operation owns none.  So no
\* thread waits for a mutex while it owns one, and there is no cycle of
\* waiting threads.
C31_NoLockCycle ==
    ~crashed =>
       /\ \A n \in DOMAIN stockMap : Present(n) => stockMap[n].owner \in {0} \cup DOMAIN pc
       /\ \A s \in DOMAIN pc :
             /\ Cardinality(Held(s)) <= 1
             /\ Held(s) \subseteq {req[s].stock}
             /\ Held(s) # {} => pc[s] \in LockedSection

\* Two sessions own the mutexes of two different stocks at the same time.
C31_Witness ==
    \E s, t \in DOMAIN pc :
        /\ s # t
        /\ Held(s) = {"ACME"}
        /\ Held(t) = {"ZETA"}

\* C32: threadCount is the number of sessions the acceptor has spawned and
\* that have not yet given their slot back.
C32_CountsLiveSessions ==
    threadCount = Cardinality({s \in DOMAIN pc : pc[s] \notin {"idle", "done"}})

\* C33: from accept until the thread is started the acceptor holds exactly
\* one connection, the last accepted, which no session serves yet; it holds
\* none when it calls accept, so it accepts no further connection while it
\* holds one; and every accepted connection is either the one held or has
\* been handed to a session thread.
C33_OneHeldConnection ==
    /\ [](/\ apc \in {"gate", "towait", "waiting"}
             => (client = accepted /\ client \in DOMAIN pc /\ pc[client] = "idle")
          /\ apc = "accept" => client = 0
          /\ \A s \in DOMAIN pc : (s <= accepted /\ s # client) => pc[s] # "idle")
    /\ [][/\ accepted' # accepted
             => (apc = "accept" /\ client = 0 /\ accepted' = accepted + 1
                 /\ client' = accepted')
          /\ (client # 0 /\ client' # client)
             => (client' = 0 /\ pc'[client] = "start")]_vars

\* The server is at capacity and the acceptor sleeps at the gate holding
\* the connection it accepted last.
C33_Witness ==
    /\ apc = "waiting"
    /\ threadCount >= maxThreads
    /\ client = accepted
    /\ client # 0
    /\ pc[client] = "idle"

\* C34: a buy of amount 0 is never in its wait; on a stock that is in the
\* ledger its predicate sends it on to the decrement, which leaves the
\* balance as it is and answers "Stock's balance updated".
C34_BuyZero ==
    /\ [](\A s \in DOMAIN pc :
            (req[s].trans = "buy" /\ req[s].amount = 0)
            => pc[s] \notin {"b_wait", "b_woken"})
    /\ [][\A s \in DOMAIN pc :
            LET n == req[s].stock
            IN  (/\ req[s].trans = "buy"
                 /\ req[s].amount = 0
                 /\ pc'[s] # pc[s]
                 /\ Present(n))
                => /\ pc[s] = "b_pred" => pc'[s] = "b_dec"
                   /\ pc[s] = "b_dec"
                      => /\ pc'[s] = "release"
                         /\ msg'[s] = [text |-> "Stock's balance updated", val |-> 0]
                         /\ Present(n)'
                         /\ stockMap'[n].balance = stockMap[n].balance]_vars

\* A buy of amount 0 on a stock whose balance is 0 has been answered
\* "Stock's balance updated".
C34_Witness ==
    \E s \in DOMAIN pc :
        /\ Returned(s, "buy", "ACME", "Stock's balance updated")
        /\ req[s].amount = 0
        /\ Present("ACME")
        /\ stockMap["ACME"].balance = 0
        /\ Bought("ACME") = {s}
        /\ Sold("ACME") = {}

====
